---- MODULE Spec2Model ----
(***************************************************************************)
(* Model of the document-ingestion core of adamani_ai_rag:                 *)
(*   - VectorStoreManager (core/vectorstore.py): the cached store handle   *)
(*     and its staleness flag, over a Chroma (persistent) or FAISS         *)
(*     (in-memory) backend;                                                *)
(*   - DocumentService.process_file (services/document_service.py) and     *)
(*     InvoiceExtractor (services/invoice_extractor.py);                   *)
(*   - the upload job map (api/routes/documents.py).                       *)
(*                                                                         *)
(* A store handle is modelled by the set of records it holds in memory.    *)
(* The backend libraries are collaborators: a Chroma handle is a snapshot  *)
(* of the persist directory taken when it is constructed, plus what was    *)
(* written through it; persist() writes the handle's records to the        *)
(* directory. FAISS.load_local/save_local do the same for FAISS.           *)
(***************************************************************************)
EXTENDS Integers, Sequences, FiniteSets, TLC

\* ------------------------------------------------------------- bounds
MaxRec == 2          \* distinct records that callers add (besides the placeholder)
MaxHandles == 3      \* store handles built in one run
NumThreads == 2      \* threads calling the shared VectorStoreManager at once
NumJobs == 2         \* upload requests made in one run
MaxChunks == 2       \* chunks the splitter makes of one upload
MaxWords == 3        \* words in a text given to the classifier
MaxTexts == 2        \* texts given to one add_texts call

\* ---------------------------------------------------------- constants
NoHandle == 0        \* self._store = None
Placeholder == 0     \* the "This is an empty knowledge base." record

Records == 1..MaxRec
AllRecords == Records \cup {Placeholder}
HandleIds == 1..MaxHandles

VARIABLES
    vector_store_type,      \* settings.vector_store_type: "chroma" or "faiss"
    store,                  \* VectorStoreManager._store: a handle id or NoHandle
    chroma_needs_reload,    \* VectorStoreManager._chroma_needs_reload
    handles,                \* handle id -> the records the handle holds in memory
    built,                  \* number of handles constructed so far
    diskExists,             \* os.path.exists(settings.vectordb_path)
    disk,                   \* the records in the persist directory
    last,                   \* the most recent cache operation and what it did
    acked,                  \* records of every add_documents/add_texts that returned
    runReloads,             \* handles built since the last add, invalidate or clear
    tpc,                    \* per thread: where it is inside a cache method
    top,                    \* per thread: the method it is running
    th,                     \* per thread: the local `store` get_store returned
    tnew,                   \* per thread: the handle _init_* returned, not yet assigned
    tneed,                  \* per thread: the adds that had returned when its call began
    rlast,                  \* the most recent search a thread was served
    upload_results,         \* documents._upload_results: upload id -> stored result
    invoices,               \* per request: Invoice rows committed for its file
    statusLog,              \* per upload id: every status stored under it, in order
    job,                    \* per request: its handler's / background task's locals
    reply,                  \* the response to the most recent status query
    run,                    \* the most recent direct call of process_file
    probe,                  \* the most recent call of a service function: what
                            \* it was given and what came back
    upload_dir,             \* settings.upload_dir: file name -> the content there
    fname,                  \* per request: file.filename
    opened                  \* per request: the content its process_file read

cacheVars == <<vector_store_type, store, chroma_needs_reload, handles, built,
               diskExists, disk>>
seqVars == <<last, runReloads>>
raceVars == <<tpc, top, th, tnew, tneed, rlast>>
jobVars == <<upload_results, invoices, statusLog, job, reply, run>>
pureVars == <<probe>>
fileVars == <<upload_dir, fname, opened>>

\* ------------------------------------------------- collaborator outcomes
\* What the environment decides during one cache operation: whether loading
\* the existing directory succeeds, whether constructing a new store
\* succeeds, whether the backend accepts the write, whether the flush works.
Envs == [load : BOOLEAN, create : BOOLEAN, write : BOOLEAN, persist : BOOLEAN]

\* --------------------------------------------------------- VectorStoreManager

\* _init_chroma: load the directory when it exists; on a failed load, or when
\* there is none, make the directory, construct Chroma on it and add the
\* placeholder through the new handle (not flushed).
init_chroma(ex, dk, env) ==
    IF ex /\ env.load
    THEN [raised |-> FALSE, contents |-> dk, exists |-> ex, created |-> FALSE]
    ELSE IF env.create
         THEN [raised |-> FALSE, contents |-> dk \cup {Placeholder},
               exists |-> TRUE, created |-> TRUE]
         ELSE [raised |-> TRUE, contents |-> {}, exists |-> TRUE, created |-> FALSE]

\* _init_faiss: load_local when the directory exists; on a failed load, or
\* when there is none, FAISS.from_texts with the placeholder only.
init_faiss(ex, dk, env) ==
    IF ex /\ env.load
    THEN [raised |-> FALSE, contents |-> dk, exists |-> ex, created |-> FALSE]
    ELSE IF env.create
         THEN [raised |-> FALSE, contents |-> {Placeholder},
               exists |-> ex, created |-> TRUE]
         ELSE [raised |-> TRUE, contents |-> {}, exists |-> ex, created |-> FALSE]

\* get_store lines 70 and 76: the backend's initialiser.
init_store_load_fatal(vst, ex, dk, env) ==
    IF ex /\ ~env.load
    THEN [raised |-> TRUE, contents |-> {}, exists |-> ex, created |-> FALSE]
    ELSE IF vst = "chroma" THEN init_chroma(ex, dk, env) ELSE init_faiss(ex, dk, env)
init_store_forgets_directory(vst, ex, dk, env) ==
    IF ex /\ env.load
    THEN [raised |-> FALSE, contents |-> {}, exists |-> ex, created |-> FALSE]
    ELSE IF vst = "chroma" THEN init_chroma(ex, dk, env) ELSE init_faiss(ex, dk, env)
init_store_always_seeds(vst, ex, dk, env) ==
    IF ex /\ env.load
    THEN [raised |-> FALSE, contents |-> dk \cup {Placeholder}, exists |-> ex,
          created |-> FALSE]
    ELSE IF vst = "chroma" THEN init_chroma(ex, dk, env) ELSE init_faiss(ex, dk, env)
init_store(vst, ex, dk, env) ==
    IF vst = "chroma" THEN init_chroma(ex, dk, env) ELSE init_faiss(ex, dk, env)

\* get_store's test: Chroma reloads when nothing is cached or the flag is
\* set; FAISS builds only when nothing is cached.
needs_reload_any_backend(vst, st, d) == st = NoHandle \/ d
needs_reload_ignores_flag(vst, st, d) == st = NoHandle
needs_reload(vst, st, d) ==
    IF vst = "chroma" THEN st = NoHandle \/ d ELSE st = NoHandle

\* isinstance(store, Chroma): the handle's type is the configured backend's.
is_chroma(vst) == vst = "chroma"

\* The cache as one value, for the operators below.
Cache ==
    [store |-> store, dirty |-> chroma_needs_reload, handles |-> handles,
     built |-> built, exists |-> diskExists, disk |-> disk]

\* A handle nothing refers to any more is garbage: its contents are dropped.
Gc(hs, live) == [h \in HandleIds |-> IF h \in live THEN hs[h] ELSE {}]

\* get_store, run without interruption. Returns the cache after the call,
\* whether it raised, the handle returned and whether a handle was built.
get_store(vst, c, env) ==
    IF needs_reload(vst, c.store, c.dirty)
    THEN LET r == init_store(vst, c.exists, c.disk, env)
             id == c.built + 1
         IN IF r.raised
            THEN [c |-> [c EXCEPT !.exists = r.exists],
                  raised |-> TRUE, h |-> NoHandle, rebuilt |-> FALSE, created |-> FALSE]
            ELSE [c |-> [c EXCEPT !.store = id,
                                  !.dirty = IF vst = "chroma" THEN FALSE ELSE @,
                                  !.handles = Gc([@ EXCEPT ![id] = r.contents], {id}),
                                  !.built = id,
                                  !.exists = r.exists],
                  raised |-> FALSE, h |-> id, rebuilt |-> TRUE, created |-> r.created]
    ELSE [c |-> c, raised |-> FALSE, h |-> c.store, rebuilt |-> FALSE, created |-> FALSE]

\* store.persist() / store.save_local(): the handle's records become the
\* directory's records.
flush_nothing(c, h) == c
flush(c, h) == [c EXCEPT !.disk = c.handles[h], !.exists = TRUE]

\* store.add_documents(documents) / store.add_texts(texts): into the handle.
write_nothing(c, h, recs) == c
write(c, h, recs) == [c EXCEPT !.handles[h] = @ \cup recs]

\* add_documents lines 180-184: persist, then mark the cache stale.
after_write_drop_handle(vst, c, h) ==
    IF is_chroma(vst) THEN [flush(c, h) EXCEPT !.store = NoHandle] ELSE c
after_write_documents(vst, c, h) ==
    IF is_chroma(vst) THEN [flush(c, h) EXCEPT !.dirty = TRUE] ELSE c

\* add_texts lines 200-203: persist only.
after_write_texts(vst, c, h) ==
    IF is_chroma(vst) THEN flush(c, h) ELSE c

\* add_documents / add_texts as a whole; `after` is the tail of the method.
\* A failed write leaves the handle as it was; a failed flush leaves the
\* records in the handle and raises before the flag is touched.
add_to_store(vst, c, recs, env, tail) ==
    LET g == get_store(vst, c, env)
    IN IF g.raised THEN [c |-> g.c, raised |-> TRUE, g |-> g]
       ELSE IF ~env.write THEN [c |-> g.c, raised |-> TRUE, g |-> g]
       ELSE LET w == write(g.c, g.h, recs)
            IN IF is_chroma(vst) /\ ~env.persist
               THEN [c |-> w, raised |-> TRUE, g |-> g]
               ELSE [c |-> IF tail = "documents"
                           THEN after_write_documents(vst, w, g.h)
                           ELSE after_write_texts(vst, w, g.h),
                     raised |-> FALSE, g |-> g]

add_documents(vst, c, recs, env) == add_to_store(vst, c, recs, env, "documents")
add_texts(vst, c, recs, env) == add_to_store(vst, c, recs, env, "texts")

\* The outcomes a call does not get to consult are immaterial; they are fixed
\* to TRUE so that each run of a call is drawn once. `adds` tells a call that
\* writes from one that only gets the store.
Consulted(vst, c, env, adds) ==
    LET reload == needs_reload(vst, c.store, c.dirty)
        loads == reload /\ c.exists
        creates == reload /\ (~c.exists \/ ~env.load)
        writes == adds /\ (creates => env.create)
        flushes == writes /\ env.write /\ is_chroma(vst)
    IN /\ ~loads => env.load
       /\ ~creates => env.create
       /\ ~writes => env.write
       /\ ~flushes => env.persist

\* ------------------------------------------------ sequential cache API

TypeOfLast ==
    [op : {"init", "get_store", "add_documents", "add_texts", "similarity_search",
           "refresh_store", "save", "clear", "external"},
     raised : BOOLEAN, h : HandleIds \cup {NoHandle}, rebuilt : BOOLEAN,
     created : BOOLEAN,
     preStore : HandleIds \cup {NoHandle}, preDirty : BOOLEAN,
     preDisk : SUBSET AllRecords, preExists : BOOLEAN,
     added : SUBSET AllRecords, served : SUBSET AllRecords]

Last(op, g, raised, added, served) ==
    [op |-> op, raised |-> raised, h |-> g.h, rebuilt |-> g.rebuilt,
     created |-> g.created,
     preStore |-> store, preDirty |-> chroma_needs_reload,
     preDisk |-> disk, preExists |-> diskExists,
     added |-> added, served |-> served]

NoGet == [h |-> NoHandle, rebuilt |-> FALSE, created |-> FALSE]

SetCache(c) ==
    /\ store' = c.store
    /\ chroma_needs_reload' = c.dirty
    /\ handles' = c.handles
    /\ built' = c.built
    /\ diskExists' = c.exists
    /\ disk' = c.disk

CanBuild == needs_reload(vector_store_type, store, chroma_needs_reload) => built < MaxHandles

InitCache ==
    /\ vector_store_type \in {"chroma", "faiss"}
    /\ store = NoHandle
    /\ chroma_needs_reload = TRUE
    /\ handles = [h \in HandleIds |-> {}]
    /\ built = 0
    /\ diskExists \in BOOLEAN
    /\ disk \in (IF diskExists THEN SUBSET AllRecords ELSE {{}})

InitSeq ==
    /\ last = [op |-> "init", raised |-> FALSE, h |-> NoHandle, rebuilt |-> FALSE,
               created |-> FALSE,
               preStore |-> NoHandle, preDirty |-> TRUE, preDisk |-> {},
               preExists |-> FALSE, added |-> {}, served |-> {}]
    /\ acked = {}
    /\ runReloads = 0

Threads == 1..NumThreads

InitRace ==
    /\ tpc = [t \in Threads |-> "idle"]
    /\ top = [t \in Threads |-> "none"]
    /\ th = [t \in Threads |-> NoHandle]
    /\ tnew = [t \in Threads |-> NoHandle]
    /\ tneed = [t \in Threads |-> {}]
    /\ rlast = [need |-> {}, served |-> {}]

GetStore ==
    /\ CanBuild
    /\ \E env \in Envs :
        LET g == get_store(vector_store_type, Cache, env)
        IN /\ Consulted(vector_store_type, Cache, env, FALSE)
           /\ SetCache(g.c)
           /\ last' = Last("get_store", g, g.raised, {}, {})
           /\ runReloads' = runReloads + (IF g.rebuilt THEN 1 ELSE 0)
    /\ UNCHANGED <<pureVars, fileVars, vector_store_type, acked, raceVars, jobVars>>

AddDocuments ==
    /\ CanBuild
    /\ \E env \in Envs, rec \in Records :
        LET recs == {rec}
            r == add_documents(vector_store_type, Cache, recs, env)
        IN /\ Consulted(vector_store_type, Cache, env, TRUE)
           /\ SetCache(r.c)
           /\ last' = Last("add_documents", r.g, r.raised, recs, {})
           /\ acked' = IF r.raised THEN acked ELSE acked \cup recs
    /\ runReloads' = 0
    /\ UNCHANGED <<pureVars, fileVars, vector_store_type, raceVars, jobVars>>

AddTexts ==
    /\ CanBuild
    /\ \E env \in Envs, rec \in Records :
        LET recs == {rec}
            r == add_texts(vector_store_type, Cache, recs, env)
        IN /\ Consulted(vector_store_type, Cache, env, TRUE)
           /\ SetCache(r.c)
           /\ last' = Last("add_texts", r.g, r.raised, recs, {})
           /\ acked' = IF r.raised THEN acked ELSE acked \cup recs
    /\ runReloads' = 0
    /\ UNCHANGED <<pureVars, fileVars, vector_store_type, raceVars, jobVars>>

\* similarity_search: the handle get_store returns answers the query; what
\* it can return are records the handle holds.
SimilaritySearch ==
    /\ CanBuild
    /\ \E env \in Envs :
        LET g == get_store(vector_store_type, Cache, env)
        IN /\ Consulted(vector_store_type, Cache, env, FALSE)
           /\ SetCache(g.c)
           /\ last' = Last("similarity_search", g, g.raised, {},
                           IF g.raised THEN {} ELSE g.c.handles[g.h])
           /\ runReloads' = runReloads + (IF g.rebuilt THEN 1 ELSE 0)
    /\ UNCHANGED <<pureVars, fileVars, vector_store_type, acked, raceVars, jobVars>>

RefreshStore ==
    /\ chroma_needs_reload' =
          (IF vector_store_type = "chroma" THEN TRUE ELSE chroma_needs_reload)
    /\ last' = Last("refresh_store", NoGet, FALSE, {}, {})
    /\ runReloads' = 0
    /\ UNCHANGED <<pureVars, fileVars, vector_store_type, store, handles, built, diskExists, disk, acked, raceVars, jobVars>>

Save ==
    /\ \E ok \in BOOLEAN :
        /\ SetCache(IF store = NoHandle \/ ~ok THEN Cache ELSE flush(Cache, store))
        /\ last' = Last("save", NoGet, store # NoHandle /\ ~ok, {}, {})
    /\ UNCHANGED <<pureVars, fileVars, vector_store_type, acked, runReloads, raceVars, jobVars>>

Clear ==
    /\ store' = NoHandle
    /\ handles' = Gc(handles, {})
    /\ last' = Last("clear", NoGet, FALSE, {}, {})
    /\ runReloads' = 0
    /\ UNCHANGED <<pureVars, fileVars, vector_store_type, chroma_needs_reload, built, diskExists, disk, acked, raceVars, jobVars>>

\* Another process adds a record to the persist directory.
ExternalWrite ==
    /\ \E r \in Records :
        /\ r \notin disk
        /\ disk' = disk \cup {r}
    /\ diskExists' = TRUE
    /\ last' = Last("external", NoGet, FALSE, {}, {})
    /\ UNCHANGED <<pureVars, fileVars, vector_store_type, store, chroma_needs_reload, handles, built,
                   acked, runReloads, raceVars, jobVars>>

\* ------------------------------------- threads sharing the manager
\* Background upload tasks and request handlers run on a thread pool and call
\* the one VectorStoreManager without any lock. Each thread runs
\* add_documents (writing the record numbered like the thread) or
\* similarity_search, one statement of the manager at a time.

Live == {store} \cup {th[t] : t \in Threads} \cup {tnew[t] : t \in Threads}

\* The call is over (returned or raised): the thread's locals die with it.
Finish(t) ==
    /\ tpc' = [tpc EXCEPT ![t] = "idle"]
    /\ top' = [top EXCEPT ![t] = "none"]
    /\ th' = [th EXCEPT ![t] = NoHandle]
    /\ tnew' = [tnew EXCEPT ![t] = NoHandle]
    /\ tneed' = [tneed EXCEPT ![t] = {}]

TStart(t) ==
    /\ tpc[t] = "idle"
    /\ \E op \in {"add_documents", "similarity_search"} :
        /\ top' = [top EXCEPT ![t] = op]
        /\ tneed' = [tneed EXCEPT ![t] =
                       IF op = "similarity_search" THEN acked ELSE {}]
    /\ tpc' = [tpc EXCEPT ![t] = "gs_test"]
    /\ UNCHANGED <<pureVars, fileVars, cacheVars, acked, seqVars, jobVars, th, tnew, rlast>>

\* get_store line 68 (Chroma) / line 75 (FAISS): the test.
TGsTest(t) ==
    /\ tpc[t] = "gs_test"
    /\ tpc' = [tpc EXCEPT ![t] =
                 IF needs_reload(vector_store_type, store, chroma_needs_reload)
                 THEN "gs_init" ELSE "gs_return"]
    /\ UNCHANGED <<pureVars, fileVars, cacheVars, acked, seqVars, jobVars, top, th, tnew, tneed, rlast>>

\* get_store line 70 / 76, right-hand side: _init_chroma / _init_faiss reads
\* the directory as it is now and returns a new handle (or raises).
TGsInit(t) ==
    /\ tpc[t] = "gs_init"
    /\ built < MaxHandles
    /\ \E env \in Envs :
        LET r == init_store(vector_store_type, diskExists, disk, env)
            id == built + 1
        IN /\ Consulted(vector_store_type, Cache, env, FALSE)
           /\ diskExists' = r.exists
           /\ IF r.raised
              THEN /\ Finish(t)
                   /\ UNCHANGED <<handles, built>>
              ELSE /\ handles' = [handles EXCEPT ![id] = r.contents]
                   /\ built' = id
                   /\ tnew' = [tnew EXCEPT ![t] = id]
                   /\ tpc' = [tpc EXCEPT ![t] = "gs_assign"]
                   /\ UNCHANGED <<top, th, tneed>>
    /\ UNCHANGED <<pureVars, fileVars, vector_store_type, store, chroma_needs_reload, disk, acked,
                   seqVars, jobVars, rlast>>

\* get_store line 70 / 76, the assignment self._store = ...
TGsAssign(t) ==
    /\ tpc[t] = "gs_assign"
    /\ store' = tnew[t]
    /\ tnew' = [tnew EXCEPT ![t] = NoHandle]
    /\ handles' = Gc(handles, ({tnew[t]} \cup {th[u] : u \in Threads}
                               \cup {tnew[u] : u \in Threads \ {t}}) \ {NoHandle})
    /\ tpc' = [tpc EXCEPT ![t] =
                 IF vector_store_type = "chroma" THEN "gs_fresh" ELSE "gs_return"]
    /\ UNCHANGED <<pureVars, fileVars, vector_store_type, chroma_needs_reload, built, diskExists, disk,
                   acked, seqVars, jobVars, top, th, tneed, rlast>>

\* get_store line 71: self._chroma_needs_reload = False
TGsFresh(t) ==
    /\ tpc[t] = "gs_fresh"
    /\ chroma_needs_reload' = FALSE
    /\ tpc' = [tpc EXCEPT ![t] = "gs_return"]
    /\ UNCHANGED <<pureVars, fileVars, vector_store_type, store, handles, built, diskExists, disk,
                   acked, seqVars, jobVars, top, th, tnew, tneed, rlast>>

\* get_store line 72 / 77: return self._store, into the caller's `store`.
TGsReturn(t) ==
    /\ tpc[t] = "gs_return"
    /\ store # NoHandle
    /\ th' = [th EXCEPT ![t] = store]
    /\ tpc' = [tpc EXCEPT ![t] =
                 IF top[t] = "add_documents" THEN "write" ELSE "search"]
    /\ UNCHANGED <<pureVars, fileVars, cacheVars, acked, seqVars, jobVars, top, tnew, tneed, rlast>>

\* add_documents line 177: store.add_documents(documents)
TWrite(t) ==
    /\ tpc[t] = "write"
    /\ \E ok \in BOOLEAN :
        IF ok
        THEN /\ SetCache(write(Cache, th[t], {t}))
             /\ tpc' = [tpc EXCEPT ![t] =
                          IF is_chroma(vector_store_type) THEN "persist" ELSE "added"]
             /\ UNCHANGED <<top, th, tnew, tneed>>
        ELSE /\ Finish(t)
             /\ handles' = Gc(handles, (Live \ {th[t]}) \cup {store})
             /\ UNCHANGED <<store, chroma_needs_reload, built, diskExists, disk>>
    /\ UNCHANGED <<pureVars, fileVars, vector_store_type, acked, seqVars, jobVars, rlast>>

\* add_documents line 181: store.persist()
TPersist(t) ==
    /\ tpc[t] = "persist"
    /\ \E ok \in BOOLEAN :
        IF ok
        THEN /\ SetCache(flush(Cache, th[t]))
             /\ tpc' = [tpc EXCEPT ![t] = "mark"]
             /\ UNCHANGED <<top, th, tnew, tneed>>
        ELSE /\ Finish(t)
             /\ handles' = Gc(handles, (Live \ {th[t]}) \cup {store})
             /\ UNCHANGED <<store, chroma_needs_reload, built, diskExists, disk>>
    /\ UNCHANGED <<pureVars, fileVars, vector_store_type, acked, seqVars, jobVars, rlast>>

\* add_documents line 183: self._chroma_needs_reload = True
TMark(t) ==
    /\ tpc[t] = "mark"
    /\ chroma_needs_reload' = TRUE
    /\ tpc' = [tpc EXCEPT ![t] = "added"]
    /\ UNCHANGED <<pureVars, fileVars, vector_store_type, store, handles, built, diskExists, disk,
                   acked, seqVars, jobVars, top, th, tnew, tneed, rlast>>

\* add_documents returns.
TAdded(t) ==
    /\ tpc[t] = "added"
    /\ acked' = acked \cup {t}
    /\ Finish(t)
    /\ handles' = Gc(handles, (Live \ {th[t]}) \cup {store})
    /\ UNCHANGED <<pureVars, fileVars, vector_store_type, store, chroma_needs_reload, built, diskExists,
                   disk, seqVars, jobVars, rlast>>

\* similarity_search line 221: store.similarity_search(query, k=k)
TSearch(t) ==
    /\ tpc[t] = "search"
    /\ rlast' = [need |-> tneed[t], served |-> handles[th[t]]]
    /\ Finish(t)
    /\ handles' = Gc(handles, (Live \ {th[t]}) \cup {store})
    /\ UNCHANGED <<pureVars, fileVars, vector_store_type, store, chroma_needs_reload, built, diskExists,
                   disk, acked, seqVars, jobVars>>

\* ------------------------------------------------------ upload jobs
\* documents.upload_file registers a job and queues process_file_background,
\* which runs DocumentService.process_file and stores the outcome.

Jobs == 1..NumJobs
UploadIds == 1..NumJobs      \* the uuid4 values that can be drawn
NoId == 0                    \* no upload id assigned

Exts == {".pdf", ".png", ".txt"}
supported_doc_formats == {".pdf", ".png", ".jpg", ".jpeg", ".tiff", ".bmp"}
ImageExts == {".png", ".jpg", ".jpeg", ".tiff", ".bmp"}

\* str(uuid.uuid4()): a value no earlier upload was given. Which one is
\* immaterial, so the first unused one stands for it.
reused_upload_id(used) == UploadIds
new_upload_id(used) ==
    {i \in UploadIds \ used : \A k \in UploadIds \ used : i <= k}

\* process_file lines 69-86: dispatch on the suffix. `out` is what the
\* processor does: "docs", "empty" (no pages) or "raise". OCR of an image
\* always yields one document.
extract_documents_any_type(ext, out) ==
    IF out = "raise" THEN "raise" ELSE "docs"
extract_documents(ext, out) ==
    IF ext = ".pdf" THEN out
    ELSE IF ext \in ImageExts THEN (IF out = "empty" THEN "docs" ELSE out)
    ELSE "unsupported"

\* A text is modelled by the set of keywords that occur in its lower-cased
\* form.
Keywords == {"invoice", "bill", "total", "amount due", "tax", "invoice no", "invoice #"}
InvoiceThreshold == 2
is_invoice_any_keyword(text) == Cardinality({kw \in Keywords : kw \in text}) >= 1
is_invoice(text) == Cardinality({kw \in Keywords : kw \in text}) >= InvoiceThreshold
Texts == {{}, {"total"}, {"invoice", "total", "tax"}}

\* InvoiceExtractor.extract: the LLM call, then the parser (schema and date
\* validators); anything but a valid response raises.
LlmOutcomes == {"llm_error", "malformed", "bad_date", "valid"}
extract(out) == [raised |-> out # "valid"]

\* InvoiceExtractor.save_to_db(self, db, invoice_data, file_path), as
\* process_file calls it: three positional arguments and user_id= by keyword.
\* Python binds the arguments before the body runs.
save_to_db_params == {"db", "invoice_data", "file_path"}
save_call_keywords == {"user_id"}
save_to_db(keywords, datesOk, dbOk) ==
    IF ~(keywords \subseteq save_to_db_params) THEN "TypeError"
    ELSE IF ~datesOk THEN "ValueError"
    ELSE IF ~dbOk THEN "commit_failed"
    ELSE "committed"

\* process_file lines 95-100: except Exception around extract and save_to_db
\* logs a warning and falls through to the indexing step.
side_failure_retries == "llm"
side_failure_propagates == "raised"
side_failure_next == "chunk"

\* Settings: the splitter's window and overlap, in characters.
chunk_size == 1000
chunk_overlap == 200

\* RecursiveCharacterTextSplitter(chunk_size, chunk_overlap, length_function=len)
\* on one document of `len` characters: consecutive windows of at most `size`
\* characters, each starting `size - overlap` after the one before, the last
\* one ending with the text.
RECURSIVE spans(_, _, _, _)
spans(lo, len, size, overlap) ==
    IF lo + size >= len
    THEN << [lo |-> lo, hi |-> len] >>
    ELSE << [lo |-> lo, hi |-> lo + size] >> \o spans(lo + size - overlap, len, size, overlap)

one_chunk_per_document(len) == IF len = 0 THEN << >> ELSE << [lo |-> 0, hi |-> len] >>
split_documents(len) ==
    IF len = 0 THEN << >> ELSE spans(0, len, chunk_size, chunk_overlap)

\* The lengths of the text the extraction collaborator returns.
DocLens == {500, 1900}

\* DocumentService.process_documents: split, add_documents, return len(chunks).
\* `rec` stands for the chunks; a failure of either call is logged and re-raised.
process_documents(vst, c, rec, splitOk, len, env) ==
    IF ~splitOk
    THEN [raised |-> TRUE, cause |-> "chunk", ret |-> 0, c |-> c]
    ELSE LET chunks == split_documents(len)
             a == add_documents(vst, c, {rec}, env)
         IN IF a.raised
            THEN [raised |-> TRUE, cause |-> "index", ret |-> 0, c |-> a.c]
            ELSE [raised |-> FALSE, cause |-> "none", ret |-> Len(chunks), c |-> a.c]

\* What process_file is given and what its collaborators do during one call.
PrimaryInputs ==
    [ext : Exts, out : {"docs", "empty", "raise"}, splitOk : BOOLEAN,
     len : DocLens, env : Envs]
SideInputs ==
    [text : Texts, llm : LlmOutcomes, datesOk : BOOLEAN, dbOk : BOOLEAN]

\* The side path, lines 92-100: "skipped" when the classifier does not fire,
\* else what became of extract and save_to_db.
side_path(sd) ==
    IF ~is_invoice(sd.text) THEN "skipped"
    ELSE IF extract(sd.llm).raised THEN "extract_failed"
    ELSE IF save_to_db(save_call_keywords, sd.datesOk, sd.dbOk) = "committed"
    THEN "saved"
    ELSE "save_failed"

\* DocumentService.process_file as one call: the value returned or the
\* failure raised, the cache afterwards, the rows committed, and which of
\* the classifier and the extractor were invoked.
process_file(vst, c, rec, pr, sd) ==
    LET r == extract_documents(pr.ext, pr.out)
        quiet == [raised |-> FALSE, cause |-> "none", ret |-> 0, c |-> c,
                  committed |-> 0, classified |-> FALSE, extracted |-> FALSE]
    IN IF r = "raise" THEN [quiet EXCEPT !.raised = TRUE, !.cause = "extract"]
       ELSE IF r # "docs" THEN quiet
       ELSE LET side == side_path(sd)
                seen == [quiet EXCEPT !.classified = TRUE,
                                      !.extracted = side # "skipped",
                                      !.committed = IF side = "saved" THEN 1 ELSE 0]
            IN IF side \in {"extract_failed", "save_failed"}
                  /\ side_failure_next = "raised"
               THEN [seen EXCEPT !.raised = TRUE, !.cause = "side"]
               ELSE LET d == process_documents(vst, c, rec, pr.splitOk, pr.len, pr.env)
                    IN [seen EXCEPT !.raised = d.raised, !.cause = d.cause,
                                    !.ret = d.ret, !.c = d.c]

\* process_file_background lines 63-79: what is stored under the upload id.
MsgLimit == 200
MsgLens == {12, 250}
truncate_nothing(n) == n
truncate(n) == IF n > MsgLimit THEN MsgLimit ELSE n
background_result_still_processing(raised, chunks, msglen) ==
    [status |-> "processing"]
background_result_always_success(raised, chunks, msglen) ==
    [status |-> "success", chunks_created |-> chunks]
background_result_evicts(raised, chunks, msglen) ==
    [status |-> "absent"]
background_result(raised, chunks, msglen) ==
    IF raised
    THEN [status |-> "error", msglen |-> truncate(msglen)]
    ELSE [status |-> "success", chunks_created |-> chunks]

NewJob ==
    [pc |-> "new", id |-> NoId, ext |-> "", side |-> "none", db |-> FALSE,
     cause |-> "none", chunks |-> 0, loadfail |-> FALSE, restok |-> FALSE]

\* process_file lines 107-109: except Exception: log and re-raise. Its
\* locals are gone; what is left is which step raised.
Raised(r, cause) == [NewJob EXCEPT !.pc = "raised", !.id = r.id, !.cause = cause]

\* get_upload_status: 404 with status not_found when the id is not a key of
\* the map, otherwise 200 with what the map holds under it.
get_upload_status_never_404(results, id) == [code |-> 200, content |-> results[id]]
get_upload_status(results, id) ==
    IF results[id].status = "absent"
    THEN [code |-> 404, content |-> [status |-> "not_found"]]
    ELSE [code |-> 200, content |-> results[id]]

NoRun ==
    [rec |-> Placeholder,
     pr |-> [ext |-> "", out |-> "docs", splitOk |-> TRUE, len |-> 0,
                     env |-> [load |-> TRUE, create |-> TRUE, write |-> TRUE,
                      persist |-> TRUE]],
     sd |-> [text |-> {}, llm |-> "valid", datesOk |-> TRUE, dbOk |-> TRUE],
     raised |-> FALSE, cause |-> "none", ret |-> 0, committed |-> 0,
     classified |-> FALSE, extracted |-> FALSE,
     before |-> [store |-> NoHandle, dirty |-> TRUE, handles |-> [h \in HandleIds |-> {}],
                 built |-> 0, exists |-> FALSE, disk |-> {}]]

NoReply == [id |-> NoId, code |-> 0, content |-> [status |-> "none"]]

InitJobs ==
    /\ reply = NoReply
    /\ run = NoRun
    /\ upload_results = [i \in UploadIds |-> [status |-> "absent"]]
    /\ invoices = [j \in Jobs |-> 0]
    /\ statusLog = [i \in UploadIds |-> << >>]
    /\ job = [j \in Jobs |-> NewJob]

Registered == {i \in UploadIds : upload_results[i].status # "absent"}

Store_replaces_map(id, result) ==
    /\ upload_results' = [i \in UploadIds |->
                             IF i = id THEN result ELSE [status |-> "absent"]]
    /\ statusLog' = [statusLog EXCEPT ![id] = Append(@, result.status)]
Store(id, result) ==
    /\ upload_results' = [upload_results EXCEPT ![id] = result]
    /\ statusLog' = [statusLog EXCEPT ![id] = Append(@, result.status)]

\* upload_file lines 123-126: what is stored under a fresh id.
registered_nothing == [status |-> "absent"]
registered_as_success == [status |-> "success", chunks_created |-> 0]
registered_result == [status |-> "processing"]

\* upload_file lines 98-126: check the suffix (400 when unsupported), save
\* the file (500 when that fails), draw an id, register the job.
UploadFile(j) ==
    /\ job[j].pc = "new"
    /\ \E ext \in Exts, saved \in BOOLEAN :
        IF ext \notin supported_doc_formats
        THEN /\ saved
             /\ job' = [job EXCEPT ![j].pc = "rejected", ![j].ext = ext]
             /\ UNCHANGED <<upload_results, statusLog>>
        ELSE IF ~saved
        THEN /\ job' = [job EXCEPT ![j].pc = "failed"]
             /\ UNCHANGED <<upload_results, statusLog>>
        ELSE \E id \in new_upload_id(Registered) :
             /\ Store(id, registered_result)
             /\ job' = [job EXCEPT ![j].pc = "registered", ![j].id = id,
                                   ![j].ext = ext]
    /\ UNCHANGED <<pureVars, fileVars, cacheVars, acked, seqVars, raceVars, reply, run, invoices>>

\* upload_file lines 129-146: queue the background task and return 202 with
\* the id. The task starts once the response has been sent.
Respond(j) ==
    /\ job[j].pc = "registered"
    /\ job' = [job EXCEPT ![j].pc = "queued"]
    /\ UNCHANGED <<pureVars, fileVars, cacheVars, acked, seqVars, raceVars, reply, run, upload_results,
                   invoices, statusLog>>

\* process_file lines 66-86: extraction. The early returns give 0, which is
\* what job[j].chunks still holds.
Extract(j) ==
    /\ job[j].pc = "queued"
    /\ \E out \in {"docs", "empty", "raise"} :
        LET r == extract_documents(job[j].ext, out)
        IN job' = [job EXCEPT ![j] =
                     IF r = "raise"
                     THEN Raised(@, "extract")
                     ELSE IF r = "docs"
                     THEN [@ EXCEPT !.pc = "classify", !.ext = ""]
                     ELSE [@ EXCEPT !.pc = "returned", !.ext = ""]]
    /\ UNCHANGED <<pureVars, fileVars, cacheVars, acked, seqVars, raceVars, reply, run, upload_results, invoices,
                   statusLog>>

\* process_file lines 89-92: join the pages' text, if self._is_invoice(full_text)
Classify(j) ==
    /\ job[j].pc = "classify"
    /\ \E text \in Texts :
        job' = [job EXCEPT ![j] =
                  IF is_invoice(text)
                  THEN [@ EXCEPT !.pc = "llm"]
                  ELSE [@ EXCEPT !.pc = "chunk", !.side = "negative"]]
    /\ UNCHANGED <<pureVars, fileVars, cacheVars, acked, seqVars, raceVars, reply, run, upload_results, invoices,
                   statusLog>>

\* process_file line 96: invoice_data = self.invoice_extractor.extract(...)
LlmExtract(j) ==
    /\ job[j].pc = "llm"
    /\ \E out \in LlmOutcomes :
        job' = [job EXCEPT ![j] =
                  IF extract(out).raised
                  THEN [@ EXCEPT !.pc = side_failure_next, !.side = "extract_failed"]
                  ELSE [@ EXCEPT !.pc = "save"]]
    /\ UNCHANGED <<pureVars, fileVars, cacheVars, acked, seqVars, raceVars, reply, run, upload_results, invoices,
                   statusLog>>

\* process_file line 98: await self.invoice_extractor.save_to_db(...)
SaveToDb(j) ==
    /\ job[j].pc = "save"
    /\ \E datesOk \in BOOLEAN, dbOk \in BOOLEAN :
        LET r == save_to_db(save_call_keywords, datesOk, dbOk)
        IN IF r = "committed"
           THEN /\ invoices' = [invoices EXCEPT ![j] = @ + 1]
                /\ job' = [job EXCEPT ![j].pc = "chunk", ![j].side = "saved",
                                      ![j].db = TRUE]
           ELSE /\ invoices' = invoices
                /\ job' = [job EXCEPT ![j].pc = side_failure_next,
                                      ![j].side = "save_failed",
                                      ![j].db = datesOk /\ dbOk]
    /\ UNCHANGED <<pureVars, fileVars, cacheVars, acked, seqVars, raceVars, reply, run, upload_results, statusLog>>

\* process_documents line 147: self.text_splitter.split_documents(documents)
\* The number of chunks is read only by the return statement (line 154), so
\* it is drawn there.
Chunk(j) ==
    /\ job[j].pc = "chunk"
    /\ \E ok \in BOOLEAN :
        job' = [job EXCEPT ![j] =
                  IF ok THEN [@ EXCEPT !.pc = "index", !.db = FALSE]
                  ELSE Raised(@, "chunk")]
    /\ UNCHANGED <<pureVars, fileVars, cacheVars, acked, seqVars, raceVars, reply, run, upload_results, invoices,
                   statusLog>>

\* process_documents lines 151-154: self.vectorstore.add_documents(chunks),
\* return len(chunks); the chunks of request j are the record j.
Index(j) ==
    /\ job[j].pc = "index"
    /\ CanBuild
    /\ \E env \in Envs, n \in 1..MaxChunks :
        LET r == add_documents(vector_store_type, Cache, {j}, env)
            reload == needs_reload(vector_store_type, store, chroma_needs_reload)
            \* loading the existing directory failed
            loadfail == reload /\ diskExists /\ ~env.load
            \* every other backend call of the write was accepted
            restok == /\ (reload /\ (~diskExists \/ ~env.load)) => env.create
                      /\ env.write
                      /\ is_chroma(vector_store_type) => env.persist
        IN /\ Consulted(vector_store_type, Cache, env, TRUE)
           /\ SetCache(r.c)
           /\ acked' = IF r.raised THEN acked ELSE acked \cup {j}
           /\ job' = [job EXCEPT ![j] =
                        IF r.raised
                        THEN [Raised(@, "index") EXCEPT
                                       !.loadfail = loadfail, !.restok = restok]
                        ELSE [@ EXCEPT !.pc = "returned", !.chunks = n,
                                       !.loadfail = loadfail, !.restok = restok]]
    /\ UNCHANGED <<pureVars, fileVars, vector_store_type, seqVars, raceVars, reply, run, upload_results, invoices,
                   statusLog>>

\* process_file_background lines 63-79: store the outcome under the id.
Complete(j) ==
    /\ job[j].pc \in {"returned", "raised"}
    /\ \E m \in MsgLens :
        Store(job[j].id, background_result(job[j].pc = "raised", job[j].chunks, m))
    /\ job' = [job EXCEPT ![j] = [NewJob EXCEPT !.pc = "done", !.id = job[j].id]]
    /\ UNCHANGED <<pureVars, fileVars, cacheVars, acked, seqVars, raceVars, reply, run, invoices>>

\* get_upload_status(upload_id): a read of the map, for any id a client
\* may send.
GetUploadStatus ==
    /\ \E id \in UploadIds :
        LET r == get_upload_status(upload_results, id)
        IN reply' = [id |-> id, code |-> r.code, content |-> r.content]
    /\ UNCHANGED <<pureVars, fileVars, cacheVars, acked, seqVars, raceVars, run, upload_results,
                   invoices, statusLog, job>>

\* The inputs of one process_file call that its course does not consult are
\* fixed, so that each course is drawn once.
AllAccepted == [load |-> TRUE, create |-> TRUE, write |-> TRUE, persist |-> TRUE]

Files ==
    {f \in [ext : Exts, out : {"docs", "empty", "raise"}, splitOk : BOOLEAN,
            len : DocLens] :
        LET r == extract_documents(f.ext, f.out)
        IN /\ f.ext \in ImageExts => f.out # "empty"
           /\ f.ext \notin supported_doc_formats => f.out = "docs"
           /\ (r = "raise" \/ ~f.splitOk) => f.len = 500
           /\ r # "docs" => f.splitOk}

SideCases ==
    {sd \in SideInputs :
        /\ ~is_invoice(sd.text) => sd.llm = "valid"
        /\ extract(sd.llm).raised => sd.llm = "malformed"
        /\ (~is_invoice(sd.text) \/ extract(sd.llm).raised) => (sd.datesOk /\ sd.dbOk)}

Primary(f, env) ==
    [ext |-> f.ext, out |-> f.out, splitOk |-> f.splitOk, len |-> f.len, env |-> env]

\* The collaborator outcomes and side-path cases that a call on file f
\* gets to consult.
EnvsFor(vst, c, f) ==
    IF extract_documents(f.ext, f.out) = "docs" /\ f.splitOk
    THEN {env \in Envs : Consulted(vst, c, env, TRUE)}
    ELSE {AllAccepted}

SidesFor(f) ==
    IF extract_documents(f.ext, f.out) = "docs"
    THEN SideCases
    ELSE {sd \in SideCases : sd.text = {}}

\* What process_file can do with a file of suffix ext, over every outcome of
\* its collaborators.
Outcomes(vst, c, rec, ext) ==
    UNION {UNION {{process_file(vst, c, rec, Primary(f, env), sd) : sd \in SidesFor(f)} :
                    env \in EnvsFor(vst, c, f)} :
             f \in {g \in Files : g.ext = ext}}

\* process_file_background as one step: run process_file for the queued file
\* and store the outcome under the upload id.
ProcessFileBackground(j) ==
    /\ job[j].pc = "queued"
    /\ CanBuild
    /\ \E r \in Outcomes(vector_store_type, Cache, j, job[j].ext) :
       \E m \in IF r.raised THEN MsgLens ELSE {12} :
           /\ SetCache(r.c)
           /\ acked' = IF r.raised \/ r.ret = 0 THEN acked ELSE acked \cup {j}
           /\ invoices' = [invoices EXCEPT ![j] = @ + r.committed]
           /\ Store(job[j].id, background_result(r.raised, r.ret, m))
    /\ job' = [job EXCEPT ![j] = [NewJob EXCEPT !.pc = "done", !.id = job[j].id]]
    /\ UNCHANGED <<pureVars, fileVars, vector_store_type, seqVars, raceVars, reply, run>>

\* The chunks of a direct call: a record no earlier call wrote, while there
\* is one.
next_record(used) ==
    IF Records \subseteq used THEN {MaxRec}
    ELSE {r \in Records \ used : \A k \in Records \ used : r <= k}

\* DocumentService.process_file called on a file of any type; `run` keeps
\* what it was given, what it did and the cache it found.
ProcessFile ==
    /\ CanBuild
    /\ \E rec \in next_record(acked), f \in Files :
       \E env \in EnvsFor(vector_store_type, Cache, f), sd \in SidesFor(f) :
       \E r \in {process_file(vector_store_type, Cache, rec, Primary(f, env), sd)} :
        LET pr == Primary(f, env)
        IN /\ TRUE
           /\ SetCache(r.c)
           /\ acked' = IF r.raised \/ r.ret = 0 THEN acked ELSE acked \cup {rec}
           /\ run' = [rec |-> rec, pr |-> pr, sd |-> sd, raised |-> r.raised,
                      cause |-> r.cause, ret |-> r.ret, committed |-> r.committed,
                      classified |-> r.classified, extracted |-> r.extracted,
                      before |-> Cache]
    /\ UNCHANGED <<pureVars, fileVars, vector_store_type, seqVars, raceVars, reply, upload_results,
                   invoices, statusLog, job>>

vars == <<cacheVars, acked, seqVars, raceVars, jobVars, pureVars, fileVars>>

NoProbe == [fn |-> "none", arg |-> << >>, out |-> FALSE]

InitPure == probe = NoProbe

\* The names clients give their files, and what a path holds: nothing, or
\* the content that came with request j.
FileNames == {"inv.pdf", "scan.png", "notes.txt"}
NoContent == 0
NoName == ""

suffix(name) ==
    CASE name = "inv.pdf" -> ".pdf"
      [] name = "scan.png" -> ".png"
      [] name = "notes.txt" -> ".txt"

InitFiles ==
    /\ upload_dir = [n \in FileNames |-> NoContent]
    /\ fname = [j \in Jobs |-> NoName]
    /\ opened = [j \in Jobs |-> NoContent]

Init == InitCache /\ InitSeq /\ InitRace /\ InitJobs /\ InitPure /\ InitFiles

Next ==
    \/ GetStore
    \/ AddDocuments
    \/ AddTexts
    \/ SimilaritySearch
    \/ RefreshStore
    \/ Save
    \/ Clear
    \/ ExternalWrite

Spec == Init /\ [][Next]_vars

NextRace ==
    \E t \in Threads :
        \/ TStart(t)
        \/ TGsTest(t)
        \/ TGsInit(t)
        \/ TGsAssign(t)
        \/ TGsFresh(t)
        \/ TGsReturn(t)
        \/ TWrite(t)
        \/ TPersist(t)
        \/ TMark(t)
        \/ TAdded(t)
        \/ TSearch(t)

\* The service has just started: the manager has served nothing yet and the
\* persist directory is absent or holds a store created by an earlier run.
InitService == Init /\ (diskExists => disk = {Placeholder})

SpecRace == InitService /\ [][NextRace]_vars

NextJobs ==
    \E j \in Jobs :
        \/ UploadFile(j)
        \/ Respond(j)
        \/ Extract(j)
        \/ Classify(j)
        \/ LlmExtract(j)
        \/ SaveToDb(j)
        \/ Chunk(j)
        \/ Index(j)
        \/ Complete(j)

SpecJobs == InitService /\ [][NextJobs]_vars

\* The steps of request j that need no client: the handler's response and
\* the background task. The event loop and the thread pool run them once
\* they can be run, and every collaborator call returns or fails.
Background(j) ==
    \/ Extract(j)
    \/ Classify(j)
    \/ LlmExtract(j)
    \/ SaveToDb(j)
    \/ Chunk(j)
    \/ Index(j)
    \/ Complete(j)

SpecJobsFair ==
    SpecJobs /\ \A j \in Jobs : WF_vars(Respond(j)) /\ WF_vars(Background(j))

\* Clients submitting files and polling, each background task taken as one
\* step.
NextTracker ==
    \/ \E j \in Jobs :
          \/ UploadFile(j)
          \/ Respond(j)
          \/ ProcessFileBackground(j)
    \/ GetUploadStatus

\* The service as configured by default: settings.vector_store_type.
InitTracker == InitService /\ vector_store_type = "chroma"

SpecTracker == InitTracker /\ [][NextTracker]_vars

\* process_file called directly, one call after another.
NextPipeline == ProcessFile

SpecPipeline == InitService /\ [][NextPipeline]_vars

\* ------------------------------------------------------ the classifier
\* _is_invoice on actual strings. A string is its sequence of characters; a
\* text is a sequence of words joined by single spaces.

Words == {"Invoice", "BILL", "Subtotal", "amount", "due", "Taxi", "no", "#", "paid"}

chars(s) ==
    CASE s = "Invoice"    -> <<"I", "n", "v", "o", "i", "c", "e">>
      [] s = "BILL"       -> <<"B", "I", "L", "L">>
      [] s = "Subtotal"   -> <<"S", "u", "b", "t", "o", "t", "a", "l">>
      [] s = "amount"     -> <<"a", "m", "o", "u", "n", "t">>
      [] s = "due"        -> <<"d", "u", "e">>
      [] s = "Taxi"       -> <<"T", "a", "x", "i">>
      [] s = "no"         -> <<"n", "o">>
      [] s = "#"          -> <<"#">>
      [] s = "paid"       -> <<"p", "a", "i", "d">>
      [] s = "invoice"    -> <<"i", "n", "v", "o", "i", "c", "e">>
      [] s = "bill"       -> <<"b", "i", "l", "l">>
      [] s = "total"      -> <<"t", "o", "t", "a", "l">>
      [] s = "amount due" -> <<"a", "m", "o", "u", "n", "t", " ", "d", "u", "e">>
      [] s = "tax"        -> <<"t", "a", "x">>
      [] s = "invoice no" -> <<"i", "n", "v", "o", "i", "c", "e", " ", "n", "o">>
      [] s = "invoice #"  -> <<"i", "n", "v", "o", "i", "c", "e", " ", "#">>

RECURSIVE join(_)
join(ws) ==
    IF ws = << >> THEN << >>
    ELSE IF Len(ws) = 1 THEN chars(ws[1])
    ELSE chars(ws[1]) \o <<" ">> \o join(Tail(ws))

\* str.lower(), on the characters that occur.
to_lower(c) ==
    CASE c = "I" -> "i"
      [] c = "B" -> "b"
      [] c = "L" -> "l"
      [] c = "S" -> "s"
      [] c = "T" -> "t"
      [] OTHER   -> c
lower(s) == [i \in 1..Len(s) |-> to_lower(s[i])]

\* kw in text_lower: Python's substring test.
occurs(kw, s) ==
    \E i \in 1..(Len(s) - Len(kw) + 1) : SubSeq(s, i, i + Len(kw) - 1) = kw

\* The keywords the generator of line 60 counts for a lower-cased text.
keywords_in(s) == {kw \in Keywords : occurs(chars(kw), s)}

ProbeTexts == UNION {[1..n -> Words] : n \in 0..MaxWords}

\* self._is_invoice(text) called on a text; the function keeps nothing
\* between calls, so a run applies it to one text.
IsInvoice ==
    /\ probe.fn = "none"
    /\ \E text \in ProbeTexts :
        probe' = [fn |-> "_is_invoice", arg |-> text,
                  out |-> is_invoice(keywords_in(lower(join(text))))]
    /\ UNCHANGED <<fileVars, cacheVars, acked, seqVars, raceVars, jobVars>>

NextClassifier == IsInvoice

SpecClassifier == InitService /\ [][NextClassifier]_vars

\* ------------------------------------------------- the invoice parser
\* InvoiceData's date fields as the LLM's JSON gives them: a string (its
\* characters), null, or no such key.

DateStrings == {"2024-01-15", "2024-13-45", "2024-1-15", "2024/01/15",
                "15-01-2024", "abcd-ef-gh", "2024-01-155", ""}

date_chars(d) ==
    CASE d = "2024-01-15"  -> <<"2", "0", "2", "4", "-", "0", "1", "-", "1", "5">>
      [] d = "2024-13-45"  -> <<"2", "0", "2", "4", "-", "1", "3", "-", "4", "5">>
      [] d = "2024-1-15"   -> <<"2", "0", "2", "4", "-", "1", "-", "1", "5">>
      [] d = "2024/01/15"  -> <<"2", "0", "2", "4", "/", "0", "1", "/", "1", "5">>
      [] d = "15-01-2024"  -> <<"1", "5", "-", "0", "1", "-", "2", "0", "2", "4">>
      [] d = "abcd-ef-gh"  -> <<"a", "b", "c", "d", "-", "e", "f", "-", "g", "h">>
      [] d = "2024-01-155" -> <<"2", "0", "2", "4", "-", "0", "1", "-", "1", "5", "5">>
      [] d = ""            -> << >>

DateValues ==
    {[kind |-> "str", s |-> d] : d \in DateStrings}
       \cup {[kind |-> "null", s |-> ""], [kind |-> "missing", s |-> ""]}

\* validate_date(cls, v), lines 29-34: a falsy v (None or "") is returned as
\* it is; any other v must have length 10 and '-' at indices 4 and 7.
validate_date(v) ==
    IF v.kind = "null" \/ Len(date_chars(v.s)) = 0
    THEN TRUE
    ELSE LET c == date_chars(v.s)
         IN Len(c) = 10 /\ c[5] = "-" /\ c[8] = "-"

\* The validator runs on the fields the response supplies.
dates_accepted(content) ==
    /\ content.invoice_date.kind # "missing" => validate_date(content.invoice_date)
    /\ content.due_date.kind # "missing" => validate_date(content.due_date)

\* The field types: invoice_date is a required str, due_date is str | None
\* with default None.
fields_accepted(content) == content.invoice_date.kind = "str"

\* What the LLM replies: whether the reply is JSON with the other fields of
\* the schema in order, and its two date fields.
Contents == [wellformed : BOOLEAN, invoice_date : DateValues, due_date : DateValues]

\* extract lines 58-79, as one of the outcomes of LlmOutcomes.
llm_outcome(llmOk, content) ==
    IF ~llmOk THEN "llm_error"
    ELSE IF ~content.wellformed \/ ~fields_accepted(content) THEN "malformed"
    ELSE IF ~dates_accepted(content) THEN "bad_date"
    ELSE "valid"

\* self.invoice_extractor.extract(text) on one reply of the LLM: raises, or
\* returns the InvoiceData with the date fields as given (a missing due_date
\* is None).
ExtractInvoice ==
    /\ probe.fn = "none"
    /\ \E llmOk \in BOOLEAN, content \in Contents :
        probe' = [fn |-> "extract", arg |-> [llmOk |-> llmOk, content |-> content],
                  out |-> IF extract(llm_outcome(llmOk, content)).raised
                          THEN [raised |-> TRUE]
                          ELSE [raised |-> FALSE,
                                invoice_date |-> content.invoice_date,
                                due_date |-> IF content.due_date.kind = "missing"
                                             THEN [kind |-> "null", s |-> ""]
                                             ELSE content.due_date]]
    /\ UNCHANGED <<fileVars, cacheVars, acked, seqVars, raceVars, jobVars>>

\* datetime.strptime(s, "%Y-%m-%d"), lines 90-91, on a ten-character string
\* with dashes in the fifth and eighth place: the other characters must be
\* digits, the month 01..12 and the day one the month has.
digit(c) ==
    CASE c = "0" -> 0 [] c = "1" -> 1 [] c = "2" -> 2 [] c = "3" -> 3
      [] c = "4" -> 4 [] c = "5" -> 5 [] c = "6" -> 6 [] c = "7" -> 7
      [] c = "8" -> 8 [] c = "9" -> 9 [] OTHER -> -1

days_in(year, month) ==
    IF month \in {4, 6, 9, 11} THEN 30
    ELSE IF month = 2
    THEN (IF year % 4 = 0 /\ (year % 100 # 0 \/ year % 400 = 0) THEN 29 ELSE 28)
    ELSE 31

strptime_ok(d) ==
    LET c == date_chars(d)
    IN /\ Len(c) = 10 /\ c[5] = "-" /\ c[8] = "-"
       /\ \A i \in {1, 2, 3, 4, 6, 7, 9, 10} : digit(c[i]) >= 0
       /\ LET year == 1000 * digit(c[1]) + 100 * digit(c[2]) + 10 * digit(c[3])
                         + digit(c[4])
              month == 10 * digit(c[6]) + digit(c[7])
              day == 10 * digit(c[9]) + digit(c[10])
          IN /\ year >= 1
             /\ month \in 1..12
             /\ day \in 1..days_in(year, month)

\* save_to_db lines 90-91: invoice_date is always converted, due_date when it
\* is truthy.
dates_convert(inv) ==
    /\ strptime_ok(inv.invoice_date.s)
    /\ (inv.due_date.kind = "str" /\ Len(date_chars(inv.due_date.s)) > 0)
          => strptime_ok(inv.due_date.s)

\* save_to_db(db, invoice_data, file_path) called as declared on the
\* InvoiceData that extract returned.
SaveExtracted ==
    /\ probe.fn = "extract"
    /\ ~probe.out.raised
    /\ \E dbOk \in BOOLEAN :
        probe' = [fn |-> "save_to_db", arg |-> probe.out,
                  out |-> save_to_db({}, dates_convert(probe.out), dbOk)]
    /\ UNCHANGED <<fileVars, cacheVars, acked, seqVars, raceVars, jobVars>>

NextExtractor == ExtractInvoice \/ SaveExtracted

SpecExtractor == InitService /\ [][NextExtractor]_vars

\* ------------------------------------------- DocumentService.add_texts
\* The texts of one call are a list of records (a text may occur twice),
\* each `len` characters long.

TextLists == UNION {[1..n -> Records] : n \in 1..MaxTexts}

RECURSIVE chunks_of(_, _)
chunks_of(n, len) ==
    IF n = 0 THEN 0 ELSE Len(split_documents(len)) + chunks_of(n - 1, len)

\* DocumentService.add_texts lines 122-131: hand the list to the manager's
\* add_texts and return len(texts); a failure is logged and re-raised. The
\* method calls no processor, classifier, extractor or database session and
\* does not use the splitter.
service_add_texts_splits(vst, c, texts, len, env) ==
    LET recs == {texts[i] : i \in 1..Len(texts)}
        a == add_texts(vst, c, recs, env)
    IN [raised |-> a.raised,
        ret |-> IF a.raised THEN 0 ELSE chunks_of(Len(texts), len),
        c |-> a.c, split |-> TRUE,
        classified |-> FALSE, extracted |-> FALSE, committed |-> 0]
service_add_texts(vst, c, texts, len, env) ==
    LET recs == {texts[i] : i \in 1..Len(texts)}
        a == add_texts(vst, c, recs, env)
    IN [raised |-> a.raised,
        ret |-> IF a.raised THEN 0 ELSE Len(texts),
        c |-> a.c, split |-> FALSE,
        classified |-> FALSE, extracted |-> FALSE, committed |-> 0]

\* The add_texts route, lines 36-48: 200 with chunks_created = the count the
\* service returned, 500 when the service raised.
add_texts_response(r) ==
    IF r.raised THEN [code |-> 500]
    ELSE [code |-> 200, status |-> "success", chunks_created |-> r.ret]

\* POST /texts: doc_service.add_texts on the request's texts.
ServiceAddTexts ==
    /\ CanBuild
    /\ \E texts \in TextLists, len \in DocLens, env \in Envs :
        LET r == service_add_texts(vector_store_type, Cache, texts, len, env)
            recs == {texts[i] : i \in 1..Len(texts)}
        IN /\ Consulted(vector_store_type, Cache, env, TRUE)
           /\ SetCache(r.c)
           /\ acked' = IF r.raised THEN acked ELSE acked \cup recs
           /\ invoices' = [j \in Jobs |-> invoices[j] + r.committed]
           /\ probe' = [fn |-> "add_texts",
                        arg |-> [texts |-> texts, len |-> len],
                        out |-> [raised |-> r.raised, ret |-> r.ret,
                                 split |-> r.split, classified |-> r.classified,
                                 extracted |-> r.extracted,
                                 response |-> add_texts_response(r),
                                 before |-> Cache]]
    /\ UNCHANGED <<fileVars, vector_store_type, seqVars, raceVars, upload_results,
                   statusLog, job, reply, run>>

NextAddTexts == ServiceAddTexts

SpecAddTexts == InitService /\ [][NextAddTexts]_vars

\* ------------------------------------------------- the upload directory
\* upload_file and process_file_background with the file itself: the handler
\* writes the request's content to upload_dir/<file.filename> and passes
\* that path to the background task, which reads whatever the path holds
\* when it runs.

\* os.path.join(settings.upload_dir, file.filename), line 112.
file_path(name) == name

\* upload_file lines 98-146 up to the registration: check the suffix, write
\* the content to the path, draw an id, register the job.
SubmitFile(j) ==
    /\ job[j].pc = "new"
    /\ \E name \in FileNames, saved \in BOOLEAN :
        IF suffix(name) \notin supported_doc_formats
        THEN /\ saved
             /\ job' = [job EXCEPT ![j].pc = "rejected", ![j].ext = suffix(name)]
             /\ UNCHANGED <<upload_results, statusLog, upload_dir, fname>>
        ELSE IF ~saved
        THEN /\ job' = [job EXCEPT ![j].pc = "failed"]
             /\ UNCHANGED <<upload_results, statusLog, upload_dir, fname>>
        ELSE \E id \in new_upload_id(Registered) :
             /\ upload_dir' = [upload_dir EXCEPT ![file_path(name)] = j]
             /\ fname' = [fname EXCEPT ![j] = name]
             /\ Store(id, registered_result)
             /\ job' = [job EXCEPT ![j].pc = "registered", ![j].id = id,
                                   ![j].ext = suffix(name)]
    /\ UNCHANGED <<pureVars, cacheVars, acked, seqVars, raceVars, reply, run, invoices,
                   opened>>

\* process_file_background on the path it was given: process_file reads the
\* file at the path and the outcome is stored under the upload id.
RunUploaded(j) ==
    /\ job[j].pc = "queued"
    /\ CanBuild
    /\ opened' = [opened EXCEPT ![j] = upload_dir[file_path(fname[j])]]
    /\ \E r \in Outcomes(vector_store_type, Cache, j, job[j].ext) :
       \E m \in IF r.raised THEN MsgLens ELSE {12} :
           /\ SetCache(r.c)
           /\ acked' = IF r.raised \/ r.ret = 0 THEN acked ELSE acked \cup {j}
           /\ invoices' = [invoices EXCEPT ![j] = @ + r.committed]
           /\ Store(job[j].id, background_result(r.raised, r.ret, m))
    /\ job' = [job EXCEPT ![j] = [NewJob EXCEPT !.pc = "done", !.id = job[j].id]]
    /\ UNCHANGED <<pureVars, vector_store_type, seqVars, raceVars, reply, run,
                   upload_dir, fname>>

NextUploads ==
    \E j \in Jobs :
        \/ SubmitFile(j)
        \/ Respond(j)
        \/ RunUploaded(j)

SpecUploads == InitTracker /\ [][NextUploads]_vars

\* ------------------------------------------------------------ claims

Persistent == vector_store_type = "chroma"

\* C1: on the persistent backend, run single-threaded, a similarity_search
\* that is served after an add_documents or add_texts call returned is served
\* by a handle holding every record those calls added.
C1_SearchSeesCompletedAdds ==
    (Persistent /\ last.op = "similarity_search" /\ ~last.raised)
        => acked \subseteq last.served

\* C1 witness: a search that had to reload (the flag was set by an add) and
\* returned the added records.
C1_Witness ==
    /\ Persistent /\ last.op = "similarity_search" /\ ~last.raised
    /\ last.preDirty /\ last.rebuilt
    /\ acked # {} /\ acked \subseteq last.served

\* C2 (as stated): with threads interleaving on the shared persistent cache,
\* a cache marked fresh (flag false, handle cached) holds every record of
\* every add_documents that has returned, so the flag set by a completed
\* write is never cleared in favour of a handle loaded before that write; and
\* every search is served by a handle holding the records of the adds that
\* had returned when the search was issued.
C2_NoStaleHandleAfterCompletedWrite ==
    Persistent =>
        /\ (store # NoHandle /\ ~chroma_needs_reload) => acked \subseteq handles[store]
        /\ rlast.need \subseteq rlast.served

\* C3 (as stated): when add_texts returns on the persistent backend the texts
\* are in durable storage and the staleness flag is set.
C3_AddTextsFlushesAndMarksStale ==
    (Persistent /\ last.op = "add_texts" /\ ~last.raised)
        => (last.added \subseteq disk /\ chroma_needs_reload)

\* C4: when add_documents returns on the persistent backend, the chunks are
\* in the handle get_store gave it and in durable storage, the flag is set,
\* and the cached handle is still that handle (no rebuild after the write).
C4_AddDocumentsMarksWithoutRebuild ==
    (Persistent /\ last.op = "add_documents" /\ ~last.raised)
        => /\ last.h # NoHandle
           /\ store = last.h
           /\ built = (IF last.rebuilt THEN last.h ELSE built)
           /\ last.added \subseteq handles[last.h]
           /\ disk = handles[last.h]
           /\ chroma_needs_reload

\* C4 witness: an add_documents that wrote through the handle already cached.
C4_Witness ==
    /\ Persistent /\ last.op = "add_documents" /\ ~last.raised
    /\ ~last.rebuilt /\ last.preStore = store /\ chroma_needs_reload
    /\ last.added \subseteq disk

\* C5: on the persistent backend a get_store that returns has built a handle
\* exactly when none was cached or the flag was set; a built handle holds the
\* directory's records (plus the placeholder when it was created rather than
\* loaded) and the flag is cleared; otherwise handle and flag are untouched.
\* Between two adds, invalidates or clears at most one handle is built.
C5_ReloadExactlyWhenStale ==
    /\ (Persistent /\ last.op \in {"get_store", "similarity_search"} /\ ~last.raised)
        => /\ last.rebuilt <=> (last.preStore = NoHandle \/ last.preDirty)
           /\ store = last.h
           /\ last.rebuilt =>
                /\ ~chroma_needs_reload
                /\ store # last.preStore
                /\ handles[store] =
                     (IF last.created THEN last.preDisk \cup {Placeholder}
                      ELSE last.preDisk)
           /\ ~last.rebuilt =>
                /\ store = last.preStore
                /\ chroma_needs_reload = last.preDirty
    /\ Persistent => runReloads <= 1

\* C5 witness: a search served from the cached handle after an earlier call
\* of the same run had reloaded it.
C5_Witness ==
    /\ Persistent /\ last.op = "similarity_search" /\ ~last.raised
    /\ ~last.rebuilt /\ runReloads = 1 /\ acked # {}

\* ------------------------------------------------------ claims on jobs

Terminal == {"success", "error"}
SideFailed == {"extract_failed", "save_failed"}

\* C6: the statuses stored under an upload id are, in order, processing and
\* then at most one terminal status; what the map holds is the last of them.
\* So a terminal status is never overwritten, processing is never stored
\* again, and success and error never replace each other.
C6_StatusSequence ==
    \A i \in UploadIds :
        /\ Len(statusLog[i]) <= 2
        /\ Len(statusLog[i]) >= 1 =>
              /\ statusLog[i][1] = "processing"
              /\ upload_results[i].status = statusLog[i][Len(statusLog[i])]
        /\ Len(statusLog[i]) = 2 => statusLog[i][2] \in Terminal
        /\ Len(statusLog[i]) = 0 => upload_results[i].status = "absent"
        /\ \A j \in Jobs :
              (job[j].id = i /\ job[j].pc = "done") => Len(statusLog[i]) = 2

\* C6 witness: both requests have finished, one in success and one in error,
\* each under its own id.
C6_Witness ==
    \E i \in UploadIds, k \in UploadIds :
        /\ statusLog[i] = <<"processing", "success">>
        /\ statusLog[k] = <<"processing", "error">>
        /\ \A j \in Jobs : job[j].pc = "done"

\* C7: a failure of extract or of save_to_db does not leave process_file: the
\* next step is chunking; nothing that does leave process_file comes from
\* the side path; and when the primary path then returns, the chunks are in
\* the index and the job is stored as success with the returned chunk count.
C7_SidePathIsolated ==
    [][\A j \in Jobs :
          /\ (job[j].pc \in {"llm", "save"} /\ job'[j].side \in SideFailed)
                => job'[j].pc = "chunk"
          /\ job'[j].pc = "raised" => job'[j].cause \in {"extract", "chunk", "index"}
          /\ (job'[j].pc = "returned" /\ job'[j].side \in SideFailed)
                => (job'[j].chunks >= 1 /\ j \in acked')
          /\ (job[j].pc = "returned" /\ job[j].side \in SideFailed
                /\ job'[j].pc = "done")
                => upload_results'[job[j].id] =
                     [status |-> "success", chunks_created |-> job[j].chunks]
      ]_vars

\* C7 witness: process_file has returned the chunk count of a document whose
\* save_to_db call failed, and the chunks are in the index.
C7_Witness ==
    \E j \in Jobs :
        /\ job[j].pc = "returned" /\ job[j].side = "save_failed"
        /\ job[j].chunks = MaxChunks /\ j \in acked
        /\ upload_results[job[j].id].status = "processing"

\* C8 (as stated): when the classifier fired, extract returned validated data
\* (dates that parse) and the relational store accepts the commit, one
\* Invoice row has been committed for the document once the side path is
\* over; when the classifier did not fire or extract failed, none.
C8_OneInvoicePerExtraction ==
    \A j \in Jobs :
        /\ (job[j].pc = "chunk" /\ job[j].side \in {"saved", "save_failed"}
              /\ job[j].db) => invoices[j] = 1
        /\ job[j].side \in {"negative", "extract_failed"} => invoices[j] = 0

\* C9: a failure of the extraction collaborator, of the splitter or of the
\* index write leaves process_file as an exception, and the background task
\* then stores error (with the message cut to the limit), never success.
C9_PrimaryFailureIsError ==
    [][\A j \in Jobs :
          /\ job'[j].cause # "none" => job'[j].pc = "raised"
          /\ (job[j].pc = "raised" /\ job'[j].pc = "done")
                => /\ upload_results'[job[j].id].status = "error"
                   /\ upload_results'[job[j].id].msglen <= MsgLimit
                   /\ statusLog'[job[j].id] = <<"processing", "error">>
      ]_vars

\* C9 witness: a job stored as error whose chunks never reached the index,
\* while another job's did.
C9_Witness ==
    \E j \in Jobs :
        /\ job[j].pc = "done"
        /\ upload_results[job[j].id].status = "error"
        /\ j \notin acked
        /\ acked # {}

\* C10 (as stated): when loading the existing directory fails during a job's
\* index write, add_documents raises, nothing of the job is written, and the
\* job is stored as error.
C10_ReloadFailureFatal ==
    [][\A j \in Jobs :
          /\ job'[j].loadfail => (job'[j].pc = "raised" /\ j \notin acked')
          /\ (job[j].loadfail /\ job'[j].pc = "done")
                => upload_results'[job[j].id].status = "error"
      ]_vars

\* C10 (amended): a failed load is absorbed by _init_chroma / _init_faiss,
\* which construct a substitute store holding the placeholder. When the
\* construction, the write and the flush are accepted, the job's chunks are
\* written to the substitute and the job is stored as success; the job ends
\* in error only when one of those later calls fails.
C10_ReloadFailureSubstituted ==
    [][\A j \in Jobs :
          /\ (job'[j].loadfail /\ job'[j].restok)
                => /\ job'[j].pc = "returned"
                   /\ store' # NoHandle
                   /\ {j, Placeholder} \subseteq handles'[store']
                   /\ j \in acked'
          /\ (job'[j].loadfail /\ job'[j].pc = "raised") => ~job'[j].restok
          /\ (job[j].loadfail /\ job[j].restok /\ job'[j].pc = "done")
                => upload_results'[job[j].id].status = "success"
      ]_vars

\* C10 witness: a job whose index write met a failed load has returned, its
\* chunks being in the substitute store that is now cached.
C10_Witness ==
    \E j \in Jobs :
        /\ job[j].pc = "returned" /\ job[j].loadfail
        /\ store # NoHandle
        /\ {j, Placeholder} \subseteq handles[store]
        /\ j \in acked

\* --------------------------------------------------- claims on the tracker

\* A step in which a status query was answered (with a new answer).
Queried == reply' # reply

\* C11: the id a submission draws is in nobody else's hands; from the moment
\* the job is registered, hence when its task is queued and its id returned,
\* the map holds processing under the id until the background task stores
\* its outcome; a query for the id of a registered job is never answered
\* not_found, and is answered processing while the task has not finished.
C11_RegisteredBeforeReturned ==
    [][/\ \A j \in Jobs, k \in Jobs :
            (j # k /\ job'[j].id # NoId) => job'[j].id # job'[k].id
       /\ \A j \in Jobs :
            /\ job'[j].pc \in {"registered", "queued"}
                 => upload_results'[job'[j].id] = [status |-> "processing"]
            /\ job'[j].pc = "done" => upload_results'[job'[j].id].status \in Terminal
            /\ (Queried /\ job[j].id = reply'.id /\ job[j].pc \in {"queued", "done"})
                 => /\ reply'.code = 200
                    /\ reply'.content.status # "not_found"
                    /\ job[j].pc = "queued" => reply'.content.status = "processing"
      ]_vars

\* C11 witness: a client polling the id it was given is told processing
\* while the task waits, another job having already finished.
C11_Witness ==
    \E j \in Jobs, k \in Jobs :
        /\ job[j].pc = "queued" /\ reply.id = job[j].id
        /\ reply.code = 200 /\ reply.content.status = "processing"
        /\ job[k].pc = "done"

\* C12: a status query changes nothing but its own answer; for an id that is
\* not in the map the answer is 404 not_found, which is none of the job
\* statuses; for an id in the map it is 200 with what the map holds.
C12_StatusQuery ==
    [][Queried =>
          /\ UNCHANGED <<cacheVars, acked, seqVars, raceVars, upload_results,
                         invoices, statusLog, job, run>>
          /\ "not_found" \notin Terminal \cup {"processing"}
          /\ IF reply'.id \in Registered
             THEN /\ reply'.code = 200
                  /\ reply'.content = upload_results[reply'.id]
                  /\ reply'.content.status \in Terminal \cup {"processing"}
             ELSE /\ reply'.code = 404
                  /\ reply'.content.status = "not_found"
      ]_vars

\* C12 witness: a query for an id no submission was given is answered
\* not_found while the map holds a finished job under another id.
C12_Witness ==
    /\ reply.code = 404 /\ reply.content.status = "not_found"
    /\ reply.id \notin Registered
    /\ \E i \in Registered : upload_results[i].status = "success"

\* C13: the background task stores, after process_file returned, success with
\* the returned count as chunks_created; after it raised, error with the
\* message cut to at most 200 characters and no chunk count.
C13_ResultPayload ==
    [][\A j \in Jobs :
          (job[j].pc \in {"returned", "raised"} /\ job'[j].pc = "done") =>
              LET res == upload_results'[job[j].id]
              IN IF job[j].pc = "returned"
                 THEN /\ res.status = "success"
                      /\ DOMAIN res = {"status", "chunks_created"}
                      /\ res.chunks_created = job[j].chunks
                 ELSE /\ res.status = "error"
                      /\ DOMAIN res = {"status", "msglen"}
                      /\ res.msglen <= 200
                      /\ res.msglen \in {truncate(m) : m \in MsgLens}
      ]_vars

\* C13 witness: one job stored with a message cut at the limit, another
\* stored with the count of the chunks it indexed.
C13_Witness ==
    \E i \in UploadIds, k \in UploadIds :
        /\ upload_results[i] = [status |-> "error", msglen |-> MsgLimit]
        /\ upload_results[k] = [status |-> "success", chunks_created |-> MaxChunks]

\* C14: with the handler and the background task of every request run
\* fairly, a job registered as processing is eventually stored as success or
\* error; no step of a client is needed for that.
C14_EveryJobTerminates ==
    \A i \in UploadIds :
        (upload_results[i].status = "processing")
            ~> (upload_results[i].status \in Terminal)

\* C14 witness: one job has reached its terminal status while the other's
\* task is still in the middle of process_file.
C14_Witness ==
    \E j \in Jobs, k \in Jobs :
        /\ job[j].pc = "done" /\ upload_results[job[j].id].status \in Terminal
        /\ job[k].pc = "index" /\ upload_results[job[k].id].status = "processing"

\* --------------------------------------------------- claims on process_file

\* The cache is as the last call of process_file found it.
Untouched == run.before = Cache

\* C15: what process_file returns or raises, hence what the background task
\* stores, and what it leaves in the index, are the same whatever the
\* classifier, the extractor and the commit do: a call with the same file,
\* the same primary collaborators and the same cache, and any other course
\* of the side path, ends alike.
C15_SidePathUnobservable ==
    run.pr.ext # "" =>
        \A sd \in SideInputs :
            LET other == process_file(vector_store_type, run.before, run.rec, run.pr, sd)
            IN /\ other.raised = run.raised
               /\ other.ret = run.ret
               /\ other.c = Cache
               /\ \A m \in MsgLens :
                     background_result(other.raised, other.ret, m)
                         = background_result(run.raised, run.ret, m)

\* C15 witness: a call whose side path fired and failed at the commit,
\* and which returned the three chunks it indexed.
C15_Witness ==
    /\ side_path(run.sd) = "save_failed"
    /\ ~run.raised /\ run.ret = 3
    /\ run.rec \in acked

C17_NothingToIndex ==
    (run.pr.ext # ""
        /\ \/ run.pr.ext \notin {".pdf"} \cup ImageExts
           \/ (run.pr.ext = ".pdf" /\ run.pr.out = "empty"))
        => /\ ~run.raised
           /\ run.ret = 0
           /\ ~run.classified
           /\ ~run.extracted
           /\ run.committed = 0
           /\ Untouched

\* C17 witness: a call on an unsupported file made when the index already
\* held a record of an earlier call.
C17_Witness ==
    /\ run.pr.ext = ".txt" /\ run.ret = 0 /\ Untouched
    /\ store # NoHandle /\ acked # {}
    /\ acked \subseteq handles[store]

\* ------------------------------------------- claims on the ephemeral cache

Ephemeral == vector_store_type = "faiss"
Accesses == {"get_store", "add_documents", "add_texts", "similarity_search"}

\* C18 (as stated): on FAISS at most one handle is ever built, and every
\* access that returns, returns that handle.
C18_FaissBuiltOnce ==
    Ephemeral =>
        /\ built <= 1
        /\ (last.op \in Accesses /\ ~last.raised) => last.h = 1

\* C18 (amended): on FAISS a handle is built only when none is cached. A
\* cached handle is returned as it is by every access, and refresh_store and
\* save leave it in place; clear alone drops it, and the access after a
\* clear builds a new handle.
C18_FaissCachedUntilClear ==
    [][Ephemeral =>
          /\ built' # built => (store = NoHandle /\ store' = built')
          /\ store # NoHandle =>
                \/ store' = store
                \/ (store' = NoHandle /\ last'.op = "clear")
          /\ (store # NoHandle /\ last' # last /\ last'.op \in Accesses
                /\ ~last'.raised)
                => (last'.h = store /\ ~last'.rebuilt)
          /\ (store = NoHandle /\ last' # last /\ last'.op \in Accesses
                /\ ~last'.raised)
                => (last'.rebuilt /\ store' = last'.h)
      ]_vars

\* C18 witness: after a clear, a search served by the second handle without
\* building it again.
C18_Witness ==
    /\ Ephemeral /\ built = 2 /\ store = 2
    /\ last.op = "similarity_search" /\ ~last.raised /\ ~last.rebuilt

\* C19: on FAISS a search made right after an add_documents or add_texts
\* that returned is served by the handle that was written to and is given
\* the added records; nothing is built, flushed or invalidated in between.
C19_FaissSearchSeesAdd ==
    [][(Ephemeral /\ last.op \in {"add_documents", "add_texts"} /\ ~last.raised
          /\ last'.op = "similarity_search" /\ ~last'.raised)
          => /\ last'.h = last.h
             /\ ~last'.rebuilt
             /\ last.added \subseteq last'.served
             /\ built' = built
             /\ disk' = disk
             /\ chroma_needs_reload' = chroma_needs_reload
      ]_vars

\* C19 witness: a search given a record that is in the handle only, the
\* directory not holding it.
C19_Witness ==
    /\ Ephemeral /\ last.op = "similarity_search" /\ ~last.raised /\ ~last.rebuilt
    /\ acked # {} /\ acked \subseteq last.served
    /\ acked \cap disk = {}

\* C20: on the persistent backend refresh_store sets the flag and touches
\* nothing else, whatever the cache holds; a get_store that follows it and
\* returns has built a handle from the directory, so that the handle holds
\* the records another process put there.
C20_RefreshStoreMarksOnly ==
    [][Persistent =>
          /\ (last' # last /\ last'.op = "refresh_store")
                => /\ chroma_needs_reload'
                   /\ UNCHANGED <<store, handles, built, diskExists, disk, acked>>
          /\ (last.op = "refresh_store" /\ last' # last /\ last'.op = "get_store"
                /\ ~last'.raised)
                => /\ last'.rebuilt
                   /\ store' # store
                   /\ disk \subseteq handles'[store']
                   /\ ~chroma_needs_reload'
      ]_vars

\* C20 witness: a handle was cached and fresh, another process wrote a
\* record to the directory, refresh_store was called, and get_store returned
\* a new handle holding that record.
C20_Witness ==
    /\ Persistent /\ last.op = "get_store" /\ ~last.raised /\ last.rebuilt
    /\ last.preStore # NoHandle /\ last.preDirty
    /\ acked = {}
    /\ \E r \in Records : r \in handles[store]

\* C21: save() with a cached handle flushes that handle's records to the
\* directory (when the flush does not raise); with no cached handle it
\* returns without raising, builds nothing and leaves the directory as it
\* was. In both cases the cached handle, the handles' contents and the flag
\* are the same after the call as before it.
C21_SaveFlushesCachedHandle ==
    [][(last' # last /\ last'.op = "save")
          => /\ UNCHANGED <<store, chroma_needs_reload, handles, built>>
             /\ store = NoHandle
                   => /\ ~last'.raised
                      /\ UNCHANGED <<disk, diskExists>>
             /\ (store # NoHandle /\ ~last'.raised)
                   => /\ disk' = handles[store]
                      /\ diskExists'
             /\ (store # NoHandle /\ last'.raised)
                   => UNCHANGED <<disk, diskExists>>
      ]_vars

\* C21 witness: on the in-memory backend, whose adds never flush, a record
\* was added and save() then put it in the directory.
C21_Witness ==
    /\ Ephemeral /\ last.op = "save" /\ ~last.raised
    /\ last.preStore # NoHandle /\ store = last.preStore
    /\ acked # {} /\ ~(acked \subseteq last.preDisk)
    /\ acked \subseteq disk /\ disk = handles[store]

C23_ClearRemovesAddedRecords ==
    [][(last.op = "clear" /\ last' # last /\ last'.op = "similarity_search"
          /\ ~last'.raised)
          => last'.served \cap acked = {}
      ]_vars

\* C24: a get_store or similarity_search that built a handle when there was
\* no directory built a store holding the placeholder and nothing else; one
\* that built a handle by loading an existing directory holds exactly the
\* records the directory held, with no placeholder added to them.
C24_SeedOnlyWhenNoDirectory ==
    (last.op \in {"get_store", "similarity_search"} /\ ~last.raised /\ last.rebuilt)
       => /\ ~last.preExists
             => /\ last.created
                /\ handles[last.h] = {Placeholder}
          /\ (last.preExists /\ ~last.created)
             => /\ handles[last.h] = last.preDisk
                /\ Placeholder \notin last.preDisk => Placeholder \notin handles[last.h]

\* C24 witness: a handle was loaded from a directory holding records and no
\* placeholder, after an earlier handle had been seeded with the placeholder.
C24_Witness ==
    /\ last.op = "get_store" /\ ~last.raised /\ last.rebuilt /\ ~last.created
    /\ last.preExists /\ last.preDisk # {} /\ Placeholder \notin last.preDisk
    /\ handles[store] = last.preDisk
    /\ built > 1

\* C25: on the persistent backend, with threads adding through the shared
\* manager in any interleaving, once every call has finished each record
\* whose add_documents returned is in the directory (and so in every handle
\* loaded from it afterwards).
C25_CompletedAddsStayDurable ==
    (Persistent /\ \A t \in Threads : tpc[t] = "idle") => acked \subseteq disk

\* C26: with the requests' steps interleaved in any order, a step changes at
\* most one entry of the map, and that entry is the one of the job taking
\* the step; the entry a finishing task stores is that task's own outcome;
\* and once every request is over, every registered id holds the terminal
\* state of the one job that was given it.
C26_NoLostJobUpdate ==
    [][/\ \A i \in UploadIds :
            upload_results'[i] # upload_results[i]
               => /\ \E j \in Jobs : job'[j] # job[j] /\ job'[j].id = i
                  /\ \A k \in UploadIds \ {i} : upload_results'[k] = upload_results[k]
       /\ \A j \in Jobs :
            (job[j].pc \in {"returned", "raised"} /\ job'[j].pc = "done")
               => upload_results'[job[j].id].status =
                     (IF job[j].pc = "raised" THEN "error" ELSE "success")
       /\ (\A j \in Jobs : job'[j].pc \in {"done", "rejected", "failed"})
            => \A i \in UploadIds :
                  upload_results'[i].status # "absent"
                     => /\ upload_results'[i].status \in Terminal
                        /\ Cardinality({j \in Jobs : job'[j].id = i}) = 1
      ]_vars

\* C26 witness: every request is over, and the map holds an error under one
\* id and a success with the largest chunk count under another.
C26_Witness ==
    /\ \A j \in Jobs : job[j].pc = "done"
    /\ \E i \in UploadIds, k \in UploadIds :
        /\ i # k
        /\ upload_results[i].status = "error"
        /\ upload_results[k].status = "success"
        /\ upload_results[k].chunks_created = MaxChunks

\* C27: no step removes an entry of the map: the set of registered ids only
\* grows, and a status query for a registered id, whenever it is made, is
\* answered 200 and never not_found.
C27_JobEntriesNeverRemoved ==
    [][/\ Registered \subseteq {i \in UploadIds : upload_results'[i].status # "absent"}
       /\ (Queried /\ reply'.id \in Registered)
            => /\ reply'.code = 200
               /\ reply'.content.status # "not_found"
      ]_vars

\* C27 witness: every job has finished, the map holds an entry for each id,
\* and a query for one of them was answered with its terminal state.
C27_Witness ==
    /\ \A j \in Jobs : job[j].pc = "done"
    /\ Registered = UploadIds
    /\ reply.code = 200 /\ reply.id \in Registered
    /\ reply.content.status \in Terminal
    /\ reply.content = upload_results[reply.id]

\* C28: _is_invoice returns a boolean, and it is TRUE exactly when two
\* different keywords of the fixed set each occur somewhere in the text,
\* letter case ignored; a keyword that is part of a longer word or of another
\* keyword counts.
OccursIgnoringCase(kw, s) ==
    \E i \in 1..(Len(s) - Len(kw) + 1) :
        \A k \in 1..Len(kw) : to_lower(s[i + k - 1]) = kw[k]

C28_ClassifierCountsKeywords ==
    probe.fn = "_is_invoice" =>
        /\ probe.out \in BOOLEAN
        /\ probe.out <=>
              \E k1 \in {"invoice", "bill", "total", "amount due", "tax",
                         "invoice no", "invoice #"},
                 k2 \in {"invoice", "bill", "total", "amount due", "tax",
                         "invoice no", "invoice #"} :
                  /\ k1 # k2
                  /\ OccursIgnoringCase(chars(k1), join(probe.arg))
                  /\ OccursIgnoringCase(chars(k2), join(probe.arg))

\* C28 witness: the text "Invoice no" was classified as an invoice, its two
\* keywords being "invoice" and "invoice no".
C28_Witness ==
    /\ probe.fn = "_is_invoice" /\ probe.arg = <<"Invoice", "no">>
    /\ probe.out
    /\ keywords_in(lower(join(probe.arg))) = {"invoice", "invoice no"}

\* A string of the YYYY-MM-DD shape: ten characters, digits but for the
\* dashes in the fifth and eighth place.
Digits == {"0", "1", "2", "3", "4", "5", "6", "7", "8", "9"}
HasDateShape(d) ==
    LET c == date_chars(d)
    IN /\ Len(c) = 10
       /\ c[5] = "-" /\ c[8] = "-"
       /\ \A i \in {1, 2, 3, 4, 6, 7, 9, 10} : c[i] \in Digits

\* C29: when extract returns an InvoiceData, its invoice_date has the
\* YYYY-MM-DD shape, and so has its due_date when the reply gave one; any
\* other reply makes extract raise.
C29_DatesHaveShapeOrParseFails ==
    (probe.fn = "extract" /\ ~probe.out.raised)
       => /\ probe.out.invoice_date.kind = "str"
          /\ HasDateShape(probe.out.invoice_date.s)
          /\ probe.out.due_date.kind = "str" => HasDateShape(probe.out.due_date.s)

C31_StepsInOrder ==
    [][/\ \A j \in Jobs :
            /\ (job'[j].pc = "classify" /\ job[j].pc # "classify")
                  => job[j].pc = "queued"
            /\ (job'[j].pc = "llm" /\ job[j].pc # "llm") => job[j].pc = "classify"
            /\ (job'[j].pc = "save" /\ job[j].pc # "save") => job[j].pc = "llm"
            /\ (job'[j].pc = "chunk" /\ job[j].pc # "chunk")
                  => /\ job[j].pc \in {"classify", "llm", "save"}
                     /\ job'[j].side \in {"negative", "extract_failed",
                                         "save_failed", "saved"}
            /\ (job'[j].pc = "index" /\ job[j].pc # "index") => job[j].pc = "chunk"
            /\ (job'[j].pc = "returned" /\ job[j].pc # "returned")
                  => job[j].pc \in {"queued", "index"}
            /\ invoices'[j] # invoices[j] => job[j].pc = "save"
            /\ (job'[j].pc = "done" /\ job[j].pc # "done")
                  => job[j].pc \in {"returned", "raised"}
            /\ job[j].pc = "done" => job'[j] = job[j]
       /\ <<store, handles, disk, acked>>' # <<store, handles, disk, acked>>
            => \E j \in Jobs :
                  /\ job[j].pc = "index" /\ job'[j].pc # "index"
                  /\ job[j].side \in {"negative", "extract_failed", "save_failed",
                                      "saved"}
       /\ \A i \in UploadIds :
            (upload_results'[i].status \in Terminal
               /\ upload_results[i].status \notin Terminal)
               => \E j \in Jobs :
                     /\ job[j].id = i
                     /\ job[j].pc \in {"returned", "raised"}
                     /\ job'[j].pc = "done"
      ]_vars

\* C31 witness: a job whose classifier fired and whose commit attempt failed
\* has written its chunks to the index and returned, and its status is
\* still processing.
C31_Witness ==
    \E j \in Jobs :
        /\ job[j].pc = "returned" /\ job[j].side = "save_failed"
        /\ j \in acked
        /\ upload_results[job[j].id].status = "processing"

\* The place of a step in process_file_background's course.
StepRank(pc) ==
    CASE pc = "new" -> 0
      [] pc \in {"rejected", "failed", "registered"} -> 1
      [] pc = "queued" -> 2
      [] pc = "classify" -> 3
      [] pc = "llm" -> 4
      [] pc = "save" -> 5
      [] pc = "chunk" -> 6
      [] pc = "index" -> 7
      [] pc \in {"returned", "raised"} -> 8
      [] pc = "done" -> 9

\* C32: a job never goes back to a step it has taken: every step of a job
\* takes it further along process_file's course, so that extraction, the LLM
\* call, the commit attempt, the index write and the storing of the outcome
\* each happen at most once per job; a job whose LLM call or commit attempt
\* failed goes on to chunking without calling either again; and at most one
\* row is committed for a job and one outcome stored under its id.
C32_NoRetries ==
    [][\A j \in Jobs :
          /\ job'[j] # job[j] => StepRank(job'[j].pc) > StepRank(job[j].pc)
          /\ job[j].side \in {"extract_failed", "save_failed"}
                => job'[j].pc \notin {"llm", "save"}
          /\ (job[j].pc \in {"llm", "save"} /\ job'[j] # job[j]
                /\ job'[j].side \in {"extract_failed", "save_failed"})
                => job'[j].pc = "chunk"
          /\ invoices'[j] <= 1
          /\ job'[j].id # NoId => Len(statusLog'[job'[j].id]) <= 2
      ]_vars

\* C32 witness: a job whose LLM call failed has gone through chunking and
\* the index write and returned, with no row committed and its outcome not
\* yet stored.
C32_Witness ==
    \E j \in Jobs :
        /\ job[j].pc = "returned" /\ job[j].side = "extract_failed"
        /\ j \in acked /\ invoices[j] = 0
        /\ statusLog[job[j].id] = <<"processing">>

\* C33 (as stated): on the in-memory backend the access that follows a
\* clear() and returns is given a store holding exactly what the directory
\* held whenever there is a directory, and only the placeholder when there
\* is none.
C33_FaissClearRestoresLastSave ==
    [][(Ephemeral /\ last.op = "clear" /\ last' # last
          /\ last'.op \in {"get_store", "similarity_search"} /\ ~last'.raised)
          => handles'[store'] = (IF diskExists THEN disk ELSE {Placeholder})
      ]_vars

\* C33 (amended): on the in-memory backend the access that follows a clear()
\* and returns has built a new store: it holds what the directory held (what the
\* last save put there) when the directory was loaded, and only the
\* placeholder when there was no directory or it could not be loaded, plus
\* what the access itself adds; so no record added before the clear and not
\* saved is in it.
C33_FaissClearLosesUnsaved ==
    [][(Ephemeral /\ last.op = "clear" /\ last' # last /\ last'.op \in Accesses
          /\ ~last'.raised)
          => /\ last'.rebuilt /\ store' = last'.h
             /\ ~diskExists => last'.created
             /\ handles'[store'] =
                   (IF last'.created THEN {Placeholder} ELSE disk) \cup last'.added
             /\ \A r \in acked \ (disk \cup last'.added) : r \notin handles'[store']
             /\ disk' = disk
      ]_vars

\* C33 witness: on the in-memory backend one record was added and saved,
\* another added and not saved; after a clear() the search is served the
\* first and not the second.
C33_Witness ==
    /\ Ephemeral /\ last.op = "similarity_search" /\ ~last.raised
    /\ last.preStore = NoHandle /\ last.rebuilt /\ ~last.created /\ built > 1
    /\ \E r \in acked, q \in acked :
          /\ r \in last.served /\ r \in disk
          /\ q \notin last.served /\ q \notin disk

\* C34: whatever the order of the submissions and of the background tasks,
\* and whatever names the files have, the content a job's process_file
\* reads is the content that came with that job's own request.
C34_JobsProcessOwnUpload ==
    \A j \in Jobs : opened[j] # NoContent => opened[j] = j

\* C35: save_to_db, given an InvoiceData that extract returned, never fails
\* on converting its dates.
C35_ValidatedDatesConvert ==
    probe.fn = "save_to_db" => probe.out # "ValueError"

====
